---- MODULE Spec2Model ----
(***************************************************************************)
(* LinkedIn post refinement loop: the reviewer's validation tools          *)
(* (post_reviewer/tools.py), the reviewer's evaluation process             *)
(* (post_reviewer/agent.py), the initial post generator                    *)
(* (post_generator/agent.py) and the generate/review loop around them.     *)
(*                                                                         *)
(* A text is a sequence of characters.  A character is a one-character     *)
(* string; a character outside printable ASCII is written "U+<code point>".*)
(***************************************************************************)
EXTENDS Integers, Sequences, FiniteSets, TLC

VARIABLES
    state,          \* session state: topic, current_post, review_feedback, review_status
    escalate,       \* tool_context.actions.escalate, the termination signal
    loop_state,     \* "Generating", "Reviewing", "Accepted", "Stopped", or "Tools"
    reviewer_step,  \* position of the reviewer in its evaluation process
    iteration,      \* number of the current generate-review cycle
    generator_input,\* the feedback the latest generator invocation was given
    review_log,     \* tool calls of the current reviewer invocation, with responses
    loop_result     \* what the loop reports when it stops

vars == <<state, escalate, loop_state, reviewer_step, iteration, generator_input,
          review_log, loop_result>>

----------------------------------------------------------------------------
(* Bounds *)

\* The iteration cap of the refinement loop.
MaxIterations == 2

\* The longest sequence of validator calls applied to one text.
MaxCalls == 3

----------------------------------------------------------------------------
(* Strings *)

UpperCase ==
    << "A", "B", "C", "D", "E", "F", "G", "H", "I", "J", "K", "L", "M",
       "N", "O", "P", "Q", "R", "S", "T", "U", "V", "W", "X", "Y", "Z" >>

LowerCase ==
    << "a", "b", "c", "d", "e", "f", "g", "h", "i", "j", "k", "l", "m",
       "n", "o", "p", "q", "r", "s", "t", "u", "v", "w", "x", "y", "z" >>

LowerMap == [c \in {UpperCase[i] : i \in 1..26} |->
                LowerCase[CHOOSE i \in 1..26 : UpperCase[i] = c]]

\* str.lower(): every cased character is replaced by its lowercase form.
\* The cased characters of the texts below are the ASCII letters; the other
\* characters ("@", "#", "-", the emoji, U+FE0F, ...) have no case.
lower(text) ==
    [i \in 1..Len(text) |-> IF text[i] \in DOMAIN LowerMap THEN LowerMap[text[i]] ELSE text[i]]

\* `sub in text` for strings: sub occurs in text as a contiguous substring.
Contains(text, sub) ==
    \/ sub = <<>>
    \/ \E i \in 0..(Len(text) - Len(sub)) :
          /\ text[i + 1] = sub[1]
          /\ SubSeq(text, i + 1, i + Len(sub)) = sub

\* any(keyword in text for keyword in keywords)
AnyKeywordIn(keywords, text) ==
    \E k \in 1..Len(keywords) : Contains(text, keywords[k])

----------------------------------------------------------------------------
(* Fixed vocabulary of the validators *)

MIN_LENGTH == 1000

MAX_LENGTH == 1500


mention_token == <<"@", "a", "i", "w", "i", "t", "h", "b", "r", "a", "n", "d", "o", "n">>

adk_capabilities ==
    << <<"b", "a", "s", "i", "c", " ", "a", "g", "e", "n", "t", " ", "i", "m", "p", "l", "e", "m", "e", "n", "t", "a", "t", "i", "o", "n">>,
       <<"t", "o", "o", "l", " ", "i", "n", "t", "e", "g", "r", "a", "t", "i", "o", "n">>,
       <<"L", "i", "t", "e", "L", "L", "M">>,
       <<"s", "e", "s", "s", "i", "o", "n", "s", " ", "a", "n", "d", " ", "m", "e", "m", "o", "r", "y">>,
       <<"p", "e", "r", "s", "i", "s", "t", "e", "n", "t", " ", "s", "t", "o", "r", "a", "g", "e">>,
       <<"m", "u", "l", "t", "i", "-", "a", "g", "e", "n", "t", " ", "o", "r", "c", "h", "e", "s", "t", "r", "a", "t", "i", "o", "n">>,
       <<"s", "t", "a", "t", "e", "f", "u", "l", " ", "m", "u", "l", "t", "i", "-", "a", "g", "e", "n", "t", " ", "s", "y", "s", "t", "e", "m", "s">>,
       <<"c", "a", "l", "l", "b", "a", "c", "k", " ", "s", "y", "s", "t", "e", "m", "s">>,
       <<"s", "e", "q", "u", "e", "n", "t", "i", "a", "l", " ", "a", "g", "e", "n", "t", "s">>,
       <<"p", "a", "r", "a", "l", "l", "e", "l", " ", "a", "g", "e", "n", "t", "s">>,
       <<"l", "o", "o", "p", " ", "a", "g", "e", "n", "t", "s">> >>

call_to_action_keywords ==
    << <<"c", "o", "n", "n", "e", "c", "t", " ", "w", "i", "t", "h", " ", "m", "e">>,
       <<"f", "o", "l", "l", "o", "w", " ", "m", "e">>,
       <<"l", "e", "a", "r", "n", " ", "m", "o", "r", "e">>,
       <<"g", "e", "t", " ", "i", "n", " ", "t", "o", "u", "c", "h">> >>

practical_application_keywords ==
    << <<"r", "e", "a", "l", "-", "w", "o", "r", "l", "d">>,
       <<"p", "r", "a", "c", "t", "i", "c", "a", "l">>,
       <<"a", "p", "p", "l", "i", "c", "a", "t", "i", "o", "n", "s">>,
       <<"u", "s", "e", " ", "c", "a", "s", "e", "s">> >>

enthusiasm_keywords ==
    << <<"e", "x", "c", "i", "t", "e", "d">>,
       <<"t", "h", "r", "i", "l", "l", "e", "d">>,
       <<"l", "o", "v", "e">>,
       <<"a", "m", "a", "z", "i", "n", "g">>,
       <<"f", "a", "n", "t", "a", "s", "t", "i", "c">>,
       <<"g", "r", "e", "a", "t">> >>

informal_keywords ==
    << <<"l", "o", "l">>,
       <<"l", "m", "a", "o">>,
       <<"b", "t", "w">>,
       <<"i", "k", "r">>,
       <<"o", "m", "g">>,
       <<"w", "t", "f">> >>

\* The characters of the string literal the emoji check tests membership in.
emoji_chars ==
    << "U+1F600", "U+1F603", "U+1F604", "U+1F601", "U+1F606", "U+1F605", "U+1F602", "U+1F923",
       "U+1F972", "U+1F60A", "U+1F607", "U+1F642", "U+1F643", "U+1F609", "U+1F60C", "U+1F60D",
       "U+1F970", "U+1F618", "U+1F617", "U+1F619", "U+1F61A", "U+1F60B", "U+1F61B", "U+1F61D",
       "U+1F61C", "U+1F92A", "U+1F928", "U+1F9D0", "U+1F913", "U+1F60E", "U+1F978", "U+1F929",
       "U+1F973", "U+1F60F", "U+1F612", "U+1F61E", "U+1F614", "U+1F61F", "U+1F615", "U+1F641",
       "U+2639", "U+FE0F", "U+1F623", "U+1F616", "U+1F62B", "U+1F629", "U+1F97A", "U+1F622",
       "U+1F62D", "U+1F624", "U+1F620", "U+1F621", "U+1F92C", "U+1F92F", "U+1F633", "U+1F975",
       "U+1F976", "U+1F631", "U+1F628", "U+1F630", "U+1F625", "U+1F613", "U+1F917", "U+1F914",
       "U+1FAE3", "U+1F92B", "U+1FAE0", "U+1F925", "U+1F636", "U+1FAE5", "U+1F610", "U+1F611",
       "U+1FAE8", "U+1F62C", "U+1FAE0", "U+1F644", "U+1F62F", "U+1F626", "U+1F627", "U+1F62E",
       "U+1F632", "U+1F971", "U+1F634", "U+1F924", "U+1F62A", "U+1F635", "U+1F4AB", "U+1F910",
       "U+1F974", "U+1F922", "U+1F92E", "U+1F927", "U+1F637", "U+1F912", "U+1F915", "U+1F911",
       "U+1F920", "U+1F608", "U+1F47F", "U+1F479", "U+1F47A", "U+1F921", "U+1F4A9", "U+1F47B",
       "U+1F480", "U+2620", "U+FE0F", "U+1F47D", "U+1F47E", "U+1F916", "U+1F383", "U+1F63A",
       "U+1F638", "U+1F639", "U+1F63B", "U+1F63C", "U+1F63D", "U+1F640", "U+1F63F", "U+1F63E" >>

EmojiSet == {emoji_chars[j] : j \in 1..Len(emoji_chars)}

----------------------------------------------------------------------------
(* Session state: a dictionary from keys to values *)

\* Variant: the write replaces the dictionary and keeps only the key written.
SetKey_Replace(st, key, value) == [k \in {key} |-> value]

\* state[key] = value
SetKey(st, key, value) ==
    [k \in (DOMAIN st) \cup {key} |-> IF k = key THEN value ELSE st[k]]

\* state.get(key): a sequence holding the value, empty when the key is absent
GetKey(st, key) == IF key \in DOMAIN st THEN <<st[key]>> ELSE <<>>

----------------------------------------------------------------------------
(* Validation tools.  Each takes the text and the session state and gives  *)
(* the state after the call together with the dictionary it returns.       *)

\* Variant: the lower limit is exclusive.
TooShort_Exclusive(char_count) == char_count <= MIN_LENGTH

TooShort(char_count) == char_count < MIN_LENGTH

TooLong(char_count) == char_count > MAX_LENGTH

count_characters(text, st) ==
    LET char_count == Len(text) IN
    IF TooShort(char_count) THEN
        LET chars_needed == MIN_LENGTH - char_count IN
        [state |-> SetKey(st, "review_status", "fail"),
         ret   |-> [result |-> "fail",
                    char_count |-> char_count,
                    chars_needed |-> chars_needed,
                    message |-> <<"Post is too short. Add", chars_needed,
                                  "more characters to reach minimum length of",
                                  MIN_LENGTH>>]]
    ELSE IF TooLong(char_count) THEN
        LET chars_to_remove == char_count - MAX_LENGTH IN
        [state |-> SetKey(st, "review_status", "fail"),
         ret   |-> [result |-> "fail",
                    char_count |-> char_count,
                    chars_to_remove |-> chars_to_remove,
                    message |-> <<"Post is too long. Remove", chars_to_remove,
                                  "characters to meet maximum length of",
                                  MAX_LENGTH>>]]
    ELSE
        [state |-> SetKey(st, "review_status", "pass"),
         ret   |-> [result |-> "pass",
                    char_count |-> char_count,
                    message |-> <<"Post length is good", char_count, "characters">>]]

\* [cap for cap in adk_capabilities if cap.lower() in text.lower()]
found_capabilities(text) ==
    LET low == lower(text) IN
    SelectSeq(adk_capabilities, LAMBDA cap : Contains(low, lower(cap)))

\* Variant: three capabilities are enough.
TooFewCapabilities_Three(found) == Len(found) < 3

TooFewCapabilities(found) == Len(found) < 4

MentionAbsent(text) == ~Contains(text, mention_token)

check_content_elements(text, st) ==
    LET low == lower(text)
        m0 == <<>>
        m1 == IF MentionAbsent(text)
              THEN Append(m0, "Mentions @aiwithbrandon") ELSE m0
        m2 == IF TooFewCapabilities(found_capabilities(text))
              THEN Append(m1, "Lists at least 4 ADK capabilities") ELSE m1
        m3 == IF ~AnyKeywordIn(call_to_action_keywords, low)
              THEN Append(m2, "Has a clear call-to-action") ELSE m2
        m4 == IF ~AnyKeywordIn(practical_application_keywords, low)
              THEN Append(m3, "Includes practical applications") ELSE m3
        missing_elements ==
              IF ~AnyKeywordIn(enthusiasm_keywords, low)
              THEN Append(m4, "Shows genuine enthusiasm") ELSE m4
    IN  IF missing_elements # <<>> THEN
            [state |-> SetKey(st, "review_status", "fail"),
             ret   |-> [result |-> "fail",
                        missing_elements |-> missing_elements,
                        message |-> <<"The post is missing some required content elements.">>]]
        ELSE
            [state |-> st,
             ret   |-> [result |-> "pass",
                        missing_elements |-> <<>>,
                        message |-> <<"All required content elements are present.">>]]

\* any(char for char in text if char in "<emoji literal>")
HasEmoji(text) == \E i \in 1..Len(text) : text[i] \in EmojiSet /\ text[i] # ""

HasHashtag(text) == Contains(text, <<"#">>)

\* Variant: the informal tokens are compared case-sensitively.
HasInformal_CaseSensitive(text) == AnyKeywordIn(informal_keywords, text)

HasInformal(text) == AnyKeywordIn(informal_keywords, lower(text))

\* Variant: a passing style check writes review_status = "pass".
check_style_elements_SetsPass(text, st) ==
    LET s0 == <<>>
        s1 == IF HasEmoji(text) THEN Append(s0, "NO emojis") ELSE s0
        s2 == IF HasHashtag(text) THEN Append(s1, "NO hashtags") ELSE s1
        style_issues ==
              IF HasInformal(text)
              THEN Append(s2, "Professional tone (avoid informal language)") ELSE s2
    IN  IF style_issues # <<>> THEN
            [state |-> SetKey(st, "review_status", "fail"),
             ret   |-> [result |-> "fail",
                        issues |-> style_issues,
                        message |-> <<"The post has some style issues.">>]]
        ELSE
            [state |-> SetKey(st, "review_status", "pass"),
             ret   |-> [result |-> "pass",
                        issues |-> <<>>,
                        message |-> <<"All style requirements are met.">>]]

check_style_elements(text, st) ==
    LET s0 == <<>>
        s1 == IF HasEmoji(text) THEN Append(s0, "NO emojis") ELSE s0
        s2 == IF HasHashtag(text) THEN Append(s1, "NO hashtags") ELSE s1
        style_issues ==
              IF HasInformal(text)
              THEN Append(s2, "Professional tone (avoid informal language)") ELSE s2
    IN  IF style_issues # <<>> THEN
            [state |-> SetKey(st, "review_status", "fail"),
             ret   |-> [result |-> "fail",
                        issues |-> style_issues,
                        message |-> <<"The post has some style issues.">>]]
        ELSE
            [state |-> st,
             ret   |-> [result |-> "pass",
                        issues |-> <<>>,
                        message |-> <<"All style requirements are met.">>]]

----------------------------------------------------------------------------
(* Texts *)

Sp == <<" ">>

Filler(n) == [i \in 1..n |-> "z"]

\* body followed by filler up to n characters (body alone when it is longer)
Pad(body, n) == body \o Sp \o Filler(n - Len(body) - 1)

FiveCapabilities ==
    adk_capabilities[1] \o Sp \o adk_capabilities[2] \o Sp \o adk_capabilities[3] \o Sp
        \o adk_capabilities[9] \o Sp \o adk_capabilities[11]

ThreeCapabilities ==
    adk_capabilities[4] \o Sp \o adk_capabilities[5] \o Sp \o adk_capabilities[6]

Cta == call_to_action_keywords[3]

Practical == practical_application_keywords[1]

Enthusiasm == enthusiasm_keywords[1]

GoodBody ==
    mention_token \o Sp \o FiveCapabilities \o Sp \o Cta \o Sp \o Practical \o Sp \o Enthusiasm

Bodies ==
    { <<>>,
      GoodBody,
      FiveCapabilities \o Sp \o Cta \o Sp \o Practical,
      mention_token \o Sp \o ThreeCapabilities \o Sp \o Cta \o Sp \o Practical \o Sp \o Enthusiasm,
      mention_token \o Sp \o FiveCapabilities \o Sp \o Practical \o Sp \o Enthusiasm,
      mention_token \o Sp \o FiveCapabilities \o Sp \o Cta \o Sp \o Enthusiasm,
      <<"@", "A", "I", "w", "i", "t", "h", "B", "r", "a", "n", "d", "o", "n">> \o Sp
          \o FiveCapabilities \o Sp \o Cta \o Sp \o Practical \o Sp \o Enthusiasm,
      mention_token \o Sp
          \o <<"T", "O", "O", "L", " ", "I", "N", "T", "E", "G", "R", "A", "T", "I", "O", "N">>
          \o Sp \o <<"l", "i", "t", "e", "l", "l", "m">> \o Sp
          \o <<"L", "o", "o", "p", " ", "A", "g", "e", "n", "t", "s">> \o Sp
          \o <<"C", "a", "l", "l", "b", "a", "c", "k", " ", "S", "y", "s", "t", "e", "m", "s">>
          \o Sp \o <<"F", "o", "l", "l", "o", "w", " ", "M", "e">>
          \o Sp \o <<"U", "s", "e", " ", "C", "a", "s", "e", "s">>
          \o Sp \o <<"T", "H", "R", "I", "L", "L", "E", "D">>,
      GoodBody \o Sp \o <<"#", "g", "r", "o", "w", "t", "h">>,
      GoodBody \o Sp \o <<"U+1F600">>,
      GoodBody \o Sp \o <<"U+2764", "U+FE0F">>,
      GoodBody \o Sp \o <<"L", "O", "L">>,
      GoodBody \o Sp \o <<"#", "U+1F916", "o", "m", "g">> }

Lengths == {800, MIN_LENGTH - 1, MIN_LENGTH, 1100, MAX_LENGTH, MAX_LENGTH + 1}

\* The texts the validators are applied to: the empty text, every body at a
\* length within the limits, and two bodies at every length.
Texts ==
    {<<>>}
        \cup {Pad(body, 1200) : body \in Bodies}
        \cup {Pad(GoodBody, n) : n \in Lengths}
        \cup {Pad(FiveCapabilities \o Sp \o Cta \o Sp \o Practical, n) : n \in Lengths}

\* The drafts the generator produces in the refinement loop.
Posts ==
    { Pad(GoodBody, 1200),
      Pad(GoodBody, 800),
      Pad(FiveCapabilities \o Sp \o Cta \o Sp \o Practical, 1100),
      Pad(FiveCapabilities \o Sp \o Cta \o Sp \o Practical, MAX_LENGTH + 1),
      Pad(GoodBody \o Sp \o <<"#", "g", "r", "o", "w", "t", "h">>, MIN_LENGTH) }

Topic == "Agent Development Kit"

CompletionMessage == "Post meets all requirements. Exiting the refinement loop."

Last(log) == log[Len(log)]

----------------------------------------------------------------------------
(* Tool calls: the session state and the log after the call *)

ToolCall(tool, after, log) ==
    /\ state' = after.state
    /\ review_log' = Append(log, [tool |-> tool, response |-> after.ret])

\* exit_loop: tool_context.actions.escalate = True; return {}
exit_loop(st) == [state |-> st, escalate |-> TRUE, ret |-> <<>>]

----------------------------------------------------------------------------
(* The validators applied to arbitrary texts, in any order *)

InitTools ==
    /\ \E text \in Texts : state = [topic |-> Topic, current_post |-> text]
    /\ escalate = FALSE
    /\ loop_state = "Tools"
    /\ reviewer_step = "idle"
    /\ iteration = 0
    /\ generator_input = <<>>
    /\ review_log = <<>>
    /\ loop_result = <<>>

CallCountCharacters ==
    /\ loop_state = "Tools"
    /\ Len(review_log) < MaxCalls
    /\ ToolCall("count_characters", count_characters(state.current_post, state), review_log)
    /\ UNCHANGED <<escalate, loop_state, reviewer_step, iteration, generator_input, loop_result>>

CallCheckContentElements ==
    /\ loop_state = "Tools"
    /\ Len(review_log) < MaxCalls
    /\ ToolCall("check_content_elements", check_content_elements(state.current_post, state), review_log)
    /\ UNCHANGED <<escalate, loop_state, reviewer_step, iteration, generator_input, loop_result>>

CallCheckStyleElements ==
    /\ loop_state = "Tools"
    /\ Len(review_log) < MaxCalls
    /\ ToolCall("check_style_elements", check_style_elements(state.current_post, state), review_log)
    /\ UNCHANGED <<escalate, loop_state, reviewer_step, iteration, generator_input, loop_result>>

NextTools ==
    \/ CallCountCharacters
    \/ CallCheckContentElements
    \/ CallCheckStyleElements

SpecTools == InitTools /\ [][NextTools]_vars

----------------------------------------------------------------------------
(* The refinement loop: generator, reviewer, loop control *)

Init ==
    /\ state = [topic |-> Topic]
    /\ escalate = FALSE
    /\ loop_state = "Generating"
    /\ reviewer_step = "idle"
    /\ iteration = 0
    /\ generator_input = <<>>
    /\ review_log = <<>>
    /\ loop_result = <<>>

\* The generator is started: it is given the topic and the feedback key of
\* the session state, and its output is stored under current_post.
StartReview(post, feedback) ==
    /\ state' = SetKey(state, "current_post", post)
    /\ generator_input' = [topic |-> state.topic, feedback |-> feedback]
    /\ iteration' = iteration + 1
    /\ loop_state' = "Reviewing"
    /\ reviewer_step' = "count_characters"
    /\ review_log' = <<>>
    /\ UNCHANGED <<escalate, loop_result>>

\* initial_post_generator: instruction over {topic} only, output_key current_post
InitialGenerate ==
    /\ loop_state = "Generating"
    /\ iteration = 0
    /\ \E post \in Posts : StartReview(post, <<>>)

\* a later generation: the topic and the feedback of the preceding review
Regenerate ==
    /\ loop_state = "Generating"
    /\ iteration > 0
    /\ \E post \in Posts : StartReview(post, GetKey(state, "review_feedback"))

\* Variant: the reviewer goes on to the content check after a failed length check.
ReviewLength_NoStop ==
    /\ loop_state = "Reviewing"
    /\ reviewer_step = "count_characters"
    /\ ToolCall("count_characters", count_characters(state.current_post, state), review_log)
    /\ reviewer_step' = "check_content_elements"
    /\ UNCHANGED <<escalate, loop_state, iteration, generator_input, loop_result>>

\* EVALUATION PROCESS 1-2: count_characters on the post
ReviewLength ==
    /\ loop_state = "Reviewing"
    /\ reviewer_step = "count_characters"
    /\ LET after == count_characters(state.current_post, state) IN
        /\ ToolCall("count_characters", after, review_log)
        /\ reviewer_step' = IF after.ret.result = "fail"
                            THEN "output" ELSE "check_content_elements"
    /\ UNCHANGED <<escalate, loop_state, iteration, generator_input, loop_result>>

\* EVALUATION PROCESS 3-4: check_content_elements, if the length check passed
ReviewContent ==
    /\ loop_state = "Reviewing"
    /\ reviewer_step = "check_content_elements"
    /\ LET after == check_content_elements(state.current_post, state) IN
        /\ ToolCall("check_content_elements", after, review_log)
        /\ reviewer_step' = IF after.ret.result = "fail"
                            THEN "output" ELSE "check_style_elements"
    /\ UNCHANGED <<escalate, loop_state, iteration, generator_input, loop_result>>

\* Variant: the reviewer goes on to the final review whatever the style check says.
ReviewStyle_Ignored ==
    /\ loop_state = "Reviewing"
    /\ reviewer_step = "check_style_elements"
    /\ ToolCall("check_style_elements", check_style_elements(state.current_post, state), review_log)
    /\ reviewer_step' = "final_review"
    /\ UNCHANGED <<escalate, loop_state, iteration, generator_input, loop_result>>

\* EVALUATION PROCESS 5-6: check_style_elements, if length and content passed
ReviewStyle ==
    /\ loop_state = "Reviewing"
    /\ reviewer_step = "check_style_elements"
    /\ LET after == check_style_elements(state.current_post, state) IN
        /\ ToolCall("check_style_elements", after, review_log)
        /\ reviewer_step' = IF after.ret.result = "fail"
                            THEN "output" ELSE "final_review"
    /\ UNCHANGED <<escalate, loop_state, iteration, generator_input, loop_result>>

\* EVALUATION PROCESS 7: the final review, a judgment of the reviewer
FinalReview ==
    /\ loop_state = "Reviewing"
    /\ reviewer_step = "final_review"
    /\ \E acceptable \in BOOLEAN :
        /\ review_log' = Append(review_log,
              [tool |-> "final_review",
               response |-> [result |-> IF acceptable THEN "pass" ELSE "fail"]])
        /\ reviewer_step' = IF acceptable THEN "exit_loop" ELSE "output"
    /\ UNCHANGED <<state, escalate, loop_state, iteration, generator_input, loop_result>>

\* OUTPUT INSTRUCTIONS, the post meets all requirements: call exit_loop
ExitLoop ==
    /\ loop_state = "Reviewing"
    /\ reviewer_step = "exit_loop"
    /\ LET after == exit_loop(state) IN
        /\ ToolCall("exit_loop", after, review_log)
        /\ escalate' = after.escalate
    /\ reviewer_step' = "output"
    /\ UNCHANGED <<loop_state, iteration, generator_input, loop_result>>

\* Variant: the reviewer returns a critique also after exit_loop.
ReviewerResponse_AlwaysFeedback(log, cycle) ==
    [kind |-> "feedback", cycle |-> cycle, basis |-> Last(log)]

\* What the reviewer returns: the completion message after exit_loop,
\* otherwise feedback based on the check that failed.  cycle identifies the
\* draft in {current_post} that the response is about.
ReviewerResponse(log, cycle) ==
    IF Last(log).tool = "exit_loop"
    THEN [kind |-> "complete", cycle |-> cycle, text |-> CompletionMessage]
    ELSE [kind |-> "feedback", cycle |-> cycle, basis |-> Last(log)]

\* Variant: the reviewer's response is not stored in the session state.
ReviewerOutput_NotStored ==
    /\ loop_state = "Reviewing"
    /\ reviewer_step = "output"
    /\ reviewer_step' = "done"
    /\ UNCHANGED <<state, escalate, loop_state, iteration, generator_input, review_log, loop_result>>

\* output_key: the reviewer's response is stored under review_feedback
ReviewerOutput ==
    /\ loop_state = "Reviewing"
    /\ reviewer_step = "output"
    /\ state' = SetKey(state, "review_feedback", ReviewerResponse(review_log, iteration))
    /\ reviewer_step' = "done"
    /\ UNCHANGED <<escalate, loop_state, iteration, generator_input, review_log, loop_result>>

\* Variant: the cap is compared with > and one more cycle runs.
LoopAdvance_OffByOne ==
    /\ loop_state = "Reviewing"
    /\ reviewer_step = "done"
    /\ reviewer_step' = "idle"
    /\ IF escalate
       THEN /\ loop_state' = "Accepted"
            /\ loop_result' = <<[accepted |-> TRUE, message |-> GetKey(state, "review_feedback")]>>
       ELSE IF iteration > MaxIterations
       THEN /\ loop_state' = "Stopped"
            /\ loop_result' = <<[accepted |-> FALSE, message |-> GetKey(state, "review_feedback")]>>
       ELSE /\ loop_state' = "Generating"
            /\ loop_result' = loop_result
    /\ UNCHANGED <<state, escalate, iteration, generator_input, review_log>>

\* The loop after a review: stop on the termination signal, stop at the
\* iteration cap reporting the last feedback, otherwise generate again.
LoopAdvance ==
    /\ loop_state = "Reviewing"
    /\ reviewer_step = "done"
    /\ reviewer_step' = "idle"
    /\ IF escalate
       THEN /\ loop_state' = "Accepted"
            /\ loop_result' = <<[accepted |-> TRUE, message |-> GetKey(state, "review_feedback")]>>
       ELSE IF iteration >= MaxIterations
       THEN /\ loop_state' = "Stopped"
            /\ loop_result' = <<[accepted |-> FALSE, message |-> GetKey(state, "review_feedback")]>>
       ELSE /\ loop_state' = "Generating"
            /\ loop_result' = loop_result
    /\ UNCHANGED <<state, escalate, iteration, generator_input, review_log>>

Next ==
    \/ InitialGenerate
    \/ Regenerate
    \/ ReviewLength
    \/ ReviewContent
    \/ ReviewStyle
    \/ FinalReview
    \/ ExitLoop
    \/ ReviewerOutput
    \/ LoopAdvance

Spec == Init /\ [][Next]_vars

\* The loop is synchronous and single-threaded: a step that can be taken is taken.
FairSpec == Spec /\ WF_vars(Next)

----------------------------------------------------------------------------
(* Properties of the validators (checked under SpecTools) *)

Validators == {"count_characters", "check_content_elements", "check_style_elements"}

\* The responses of the calls of a tool in the log.
ResponsesOf(tool) ==
    {review_log[k].response : k \in {j \in 1..Len(review_log) : review_log[j].tool = tool}}

Elements(seq) == {seq[i] : i \in 1..Len(seq)}

ContainsIgnoreCase(text, phrase) == Contains(lower(text), lower(phrase))

ContainsAnyIgnoreCase(text, phrases) ==
    \E k \in 1..Len(phrases) : ContainsIgnoreCase(text, phrases[k])

\* The content requirements a text does not meet, by name.
UnmetContent(text) ==
    {name \in {"Mentions @aiwithbrandon", "Lists at least 4 ADK capabilities",
               "Has a clear call-to-action", "Includes practical applications",
               "Shows genuine enthusiasm"} :
        \/ /\ name = "Mentions @aiwithbrandon"
           /\ ~Contains(text, mention_token)
        \/ /\ name = "Lists at least 4 ADK capabilities"
           /\ Cardinality({k \in 1..Len(adk_capabilities) :
                              ContainsIgnoreCase(text, adk_capabilities[k])}) < 4
        \/ /\ name = "Has a clear call-to-action"
           /\ ~ContainsAnyIgnoreCase(text, call_to_action_keywords)
        \/ /\ name = "Includes practical applications"
           /\ ~ContainsAnyIgnoreCase(text, practical_application_keywords)
        \/ /\ name = "Shows genuine enthusiasm"
           /\ ~ContainsAnyIgnoreCase(text, enthusiasm_keywords)}

\* The style rules a text violates, by name.
ViolatedStyle(text) ==
    {name \in {"NO emojis", "NO hashtags", "Professional tone (avoid informal language)"} :
        \/ /\ name = "NO emojis"
           /\ Elements(text) \cap Elements(emoji_chars) # {}
        \/ /\ name = "NO hashtags"
           /\ "#" \in Elements(text)
        \/ /\ name = "Professional tone (avoid informal language)"
           /\ ContainsAnyIgnoreCase(text, informal_keywords)}

\* C1: count_characters on a text of length L returns 'pass' iff
\* 1000 <= L <= 1500 (both limits inclusive); for L < 1000 it returns 'fail'
\* with chars_needed = 1000 - L, for L > 1500 'fail' with
\* chars_to_remove = L - 1500; char_count = L in every case.
C1_LengthCheck ==
    \A r \in ResponsesOf("count_characters") :
        LET L == Len(state.current_post) IN
        /\ r.char_count = L
        /\ r.result \in {"pass", "fail"}
        /\ (r.result = "pass") <=> (1000 <= L /\ L <= 1500)
        /\ L < 1000 => /\ r.result = "fail"
                       /\ "chars_needed" \in DOMAIN r
                       /\ r.chars_needed = 1000 - L
        /\ L > 1500 => /\ r.result = "fail"
                       /\ "chars_to_remove" \in DOMAIN r
                       /\ r.chars_to_remove = L - 1500

\* count_characters has passed a text of exactly 1000 characters.
C1_Witness ==
    /\ Len(state.current_post) = 1000
    /\ \E r \in ResponsesOf("count_characters") : r.result = "pass"

\* C2: check_content_elements returns 'fail' iff at least one of the five
\* content requirements is unmet, and missing_elements names exactly the
\* unmet requirements, each once (empty on 'pass').
C2_ContentCheck ==
    \A r \in ResponsesOf("check_content_elements") :
        LET unmet == UnmetContent(state.current_post) IN
        /\ r.result \in {"pass", "fail"}
        /\ (r.result = "fail") <=> (unmet # {})
        /\ Elements(r.missing_elements) = unmet
        /\ Len(r.missing_elements) = Cardinality(unmet)

\* check_content_elements has failed a text of 1100 characters that lacks
\* the mention and an enthusiasm phrase, naming exactly these two.
C2_Witness ==
    /\ Len(state.current_post) = 1100
    /\ \E r \in ResponsesOf("check_content_elements") :
          /\ r.result = "fail"
          /\ r.missing_elements = <<"Mentions @aiwithbrandon", "Shows genuine enthusiasm">>

\* C3: check_style_elements returns 'fail' iff the text has a character of
\* the emoji set, a '#', or an informal token (case-insensitively), and
\* issues names exactly the violated rules, each once.
C3_StyleCheck ==
    \A r \in ResponsesOf("check_style_elements") :
        LET violated == ViolatedStyle(state.current_post) IN
        /\ r.result \in {"pass", "fail"}
        /\ (r.result = "fail") <=> (violated # {})
        /\ Elements(r.issues) = violated
        /\ Len(r.issues) = Cardinality(violated)

\* check_style_elements has failed a text whose only violation is a '#'.
C3_Witness ==
    /\ "#" \in Elements(state.current_post)
    /\ \E r \in ResponsesOf("check_style_elements") :
          /\ r.result = "fail"
          /\ r.issues = <<"NO hashtags">>

\* A step that is a call of a validator.
ValidatorCalled ==
    /\ Len(review_log') = Len(review_log) + 1
    /\ Last(review_log').tool \in Validators

\* C8 as stated: every call of a validator leaves the session state unchanged.
C8_ValidatorsLeaveStateUnchanged ==
    [][ValidatorCalled => state' = state]_vars

\* C8: a validator call changes no key of the session state other than
\* review_status and never the termination signal: count_characters writes
\* its result to review_status, a failing check_content_elements or
\* check_style_elements writes 'fail', and a passing one changes nothing.
C8_ValidatorsWriteOnlyReviewStatus ==
    [][ValidatorCalled =>
        LET call == Last(review_log') IN
        /\ escalate' = escalate
        /\ DOMAIN state \subseteq DOMAIN state'
        /\ DOMAIN state' \subseteq DOMAIN state \cup {"review_status"}
        /\ \A key \in DOMAIN state \ {"review_status"} : state'[key] = state[key]
        /\ call.tool = "count_characters" => state'.review_status = call.response.result
        /\ (call.tool # "count_characters" /\ call.response.result = "fail")
              => state'.review_status = "fail"
        /\ (call.tool # "count_characters" /\ call.response.result = "pass")
              => state' = state]_vars

\* A validator has failed and written review_status with topic and post kept.
C8_Witness ==
    /\ review_log # <<>>
    /\ Last(review_log).tool \in Validators
    /\ Last(review_log).response.result = "fail"
    /\ DOMAIN state = {"topic", "current_post", "review_status"}
    /\ state.review_status = "fail"

\* The last call in the log that writes review_status: a call of
\* count_characters or a failing call (0 when there is none).
LastWriter(log) ==
    LET writers == {k \in 1..Len(log) :
                        \/ log[k].tool = "count_characters"
                        \/ log[k].response.result = "fail"}
    IN  IF writers = {} THEN 0 ELSE CHOOSE k \in writers : \A j \in writers : j <= k

\* The log is a review in order that stops at the first failure.
OrderedReview(log) ==
    /\ log # <<>>
    /\ Len(log) <= 3
    /\ \A k \in 1..Len(log) :
          log[k].tool = <<"count_characters", "check_content_elements",
                          "check_style_elements">>[k]
    /\ \A k \in 1..(Len(log) - 1) : log[k].response.result = "pass"
    /\ Len(log) = 3 \/ Last(log).response.result = "fail"

\* C10: after any sequence of validator calls review_status is 'fail' when
\* the latest call failed, only count_characters sets it to 'pass' (a passing
\* check_content_elements or check_style_elements leaves it as it was), and
\* after a review in order that stops at the first failure it is 'pass' iff
\* every validator that ran passed.
C10_ReviewStatus ==
    /\ (review_log # <<>> /\ Last(review_log).response.result = "fail")
          => GetKey(state, "review_status") = <<"fail">>
    /\ GetKey(state, "review_status") =
          IF LastWriter(review_log) = 0 THEN <<>>
          ELSE <<review_log[LastWriter(review_log)].response.result>>
    /\ OrderedReview(review_log) =>
          ((GetKey(state, "review_status") = <<"pass">>)
              <=> \A k \in 1..Len(review_log) : review_log[k].response.result = "pass")

\* A failed count_characters followed by a passing check_content_elements:
\* review_status is still 'fail'.
C10_Witness ==
    /\ Len(review_log) = 2
    /\ review_log[1].tool = "count_characters"
    /\ review_log[1].response.result = "fail"
    /\ review_log[2].tool = "check_content_elements"
    /\ review_log[2].response.result = "pass"
    /\ state.review_status = "fail"

----------------------------------------------------------------------------
(* Properties of the reviewer and the loop (checked under Spec and FairSpec) *)

ReviewOrder ==
    <<"count_characters", "check_content_elements", "check_style_elements",
      "final_review", "exit_loop">>

\* C4: within one review the validators are invoked in the order length,
\* content, style, each only after all before it passed on the post, and a
\* post failing both length and content gets feedback on the length only.
C4_ReviewOrder ==
    /\ Len(review_log) <= Len(ReviewOrder)
    /\ \A k \in 1..Len(review_log) : review_log[k].tool = ReviewOrder[k]
    /\ \A k \in 1..(Len(review_log) - 1) : review_log[k].response.result = "pass"
    /\ (/\ loop_state = "Reviewing"
        /\ reviewer_step = "done"
        /\ Len(state.current_post) \notin 1000..1500
        /\ UnmetContent(state.current_post) # {})
          => /\ Len(review_log) = 1
             /\ state.review_feedback.kind = "feedback"
             /\ state.review_feedback.cycle = iteration
             /\ state.review_feedback.basis.tool = "count_characters"
             /\ state.review_feedback.basis.response.result = "fail"

\* The review of a post that is too long and lacks content elements has ended
\* with feedback on its length.
C4_Witness ==
    /\ loop_state = "Reviewing"
    /\ reviewer_step = "done"
    /\ Len(state.current_post) > 1500
    /\ UnmetContent(state.current_post) # {}
    /\ state.review_feedback.basis.tool = "count_characters"

\* The current post passes the three validators.
PassesAll(post) ==
    /\ count_characters(post, state).ret.result = "pass"
    /\ check_content_elements(post, state).ret.result = "pass"
    /\ check_style_elements(post, state).ret.result = "pass"

\* C5: the termination signal is raised only for a post that meets all
\* requirements: whenever escalate is set or the loop is Accepted, the
\* current post passes the length, content and style validators.
C5_ExitOnlyWhenAllPass ==
    (escalate \/ loop_state = "Accepted") => PassesAll(state.current_post)

\* The loop is Accepted on the termination signal.
C5_Witness ==
    /\ loop_state = "Accepted"
    /\ escalate

\* The loop has just left a reviewer invocation.
ReviewEnded == reviewer_step = "idle" /\ iteration > 0

\* C6 as stated: a reviewer invocation ends either with feedback and no
\* signal, the loop back in Generating, or with the signal and the completion
\* message, the loop Accepted; nothing happens after Accepted.
C6_FeedbackReturnsToGenerating ==
    /\ [](ReviewEnded =>
            \/ /\ ~escalate
               /\ state.review_feedback.kind = "feedback"
               /\ loop_state = "Generating"
            \/ /\ escalate
               /\ state.review_feedback.kind = "complete"
               /\ state.review_feedback.text = CompletionMessage
               /\ loop_state = "Accepted")
    /\ [][loop_state # "Accepted"]_vars

\* C6: a reviewer invocation ends either with feedback and no signal, the
\* loop back in Generating or, at the iteration cap, Stopped; or with the
\* signal and the completion message, the loop Accepted; nothing happens
\* after Accepted.
C6_ExactlyOneOutcome ==
    /\ [](ReviewEnded =>
            \/ /\ ~escalate
               /\ state.review_feedback.kind = "feedback"
               /\ state.review_feedback.cycle = iteration
               /\ loop_state = IF iteration >= MaxIterations THEN "Stopped" ELSE "Generating"
            \/ /\ escalate
               /\ state.review_feedback.kind = "complete"
               /\ state.review_feedback.cycle = iteration
               /\ state.review_feedback.text = CompletionMessage
               /\ loop_state = "Accepted")
    /\ [][loop_state # "Accepted"]_vars

\* A reviewer invocation has ended with the signal and the completion message.
C6_Witness ==
    /\ ReviewEnded
    /\ escalate
    /\ loop_state = "Accepted"
    /\ state.review_feedback.text = CompletionMessage

\* C7: every run reaches Accepted or Stopped, the number of cycles never
\* exceeds the iteration cap, and a loop stopped at the cap without the
\* signal reports 'not accepted' with the last feedback.
C7_Terminates ==
    /\ [](iteration <= MaxIterations)
    /\ [](loop_state = "Stopped" =>
            /\ ~escalate
            /\ iteration = MaxIterations
            /\ state.review_feedback.kind = "feedback"
            /\ state.review_feedback.cycle = iteration
            /\ loop_result = <<[accepted |-> FALSE, message |-> <<state.review_feedback>>]>>)
    /\ [](loop_state \in {"Generating", "Reviewing"} => loop_result = <<>>)
    /\ <>(loop_state \in {"Accepted", "Stopped"})

\* The loop has stopped at the iteration cap without acceptance.
C7_Witness ==
    /\ loop_state = "Stopped"
    /\ iteration = MaxIterations
    /\ loop_result # <<>>
    /\ ~loop_result[1].accepted

====
